---- MODULE Spec2Model ----
(***************************************************************************)
(* Model of create_interactive_map.py: the point extractor                 *)
(* (get_representative_points, get_all_points_from_gdf) and the pipeline   *)
(* generate_map (load, reproject, emptiness check, map center, heatmap     *)
(* layers, per-year overlays, layer control, save).                        *)
(*                                                                         *)
(* Coordinates are integers.  A geometry is a record                       *)
(*   [geom_type, coords, parts]                                            *)
(* coords is the vertex sequence of a Point, LineString or Polygon (the    *)
(* exterior ring, closed, as shapely stores it), each vertex <<x, y>>      *)
(* = <<lon, lat>>; parts is the sequence of member vertex sequences of a   *)
(* multi-part geometry.  A missing geometry (Python None) is NoneGeom.     *)
(***************************************************************************)
EXTENDS Integers, Sequences, FiniteSets, TLC

\* ---------------------------------------------------------------- bounds
MaxCoord == 1
MaxVerts == 3
MaxRows == 2

\* ------------------------------------------------------- configuration
DELIV_YEAR_COL == "Deliv_Year"
CATEGORY_COL == "category"
LOCATION_COL == "location"
HEATMAP_CATEGORIES == <<1, 2>>

\* ------------------------------------------------------------ geometry
NoneGeom == [geom_type |-> "None", coords |-> <<>>, parts |-> <<>>]

Point(x, y) == [geom_type |-> "Point", coords |-> <<<<x, y>>>>, parts |-> <<>>]

LineString(cs) == [geom_type |-> "LineString", coords |-> cs, parts |-> <<>>]

Polygon(ring) == [geom_type |-> "Polygon", coords |-> ring, parts |-> <<>>]

MultiLineString(ps) == [geom_type |-> "MultiLineString", coords |-> <<>>, parts |-> ps]

MultiPolygon(ps) == [geom_type |-> "MultiPolygon", coords |-> <<>>, parts |-> ps]

Abs(n) == IF n < 0 THEN -n ELSE n

RECURSIVE SumTo(_, _)
\* f[1] + ... + f[n]
SumTo(f, n) == IF n = 0 THEN 0 ELSE SumTo(f, n - 1) + f[n]

\* Length of the segment p-q; every line the model asks a centroid of is
\* axis-parallel, where the Euclidean length is |dx| + |dy|.
SegLen(p, q) == Abs(q[1] - p[1]) + Abs(q[2] - p[2])

\* Length of a vertex sequence taken as a path.
PathLen(cs) ==
  SumTo([i \in 1..(Len(cs) - 1) |-> SegLen(cs[i], cs[i + 1])], Len(cs) - 1)

\* Twice the length-weighted sum of the segment midpoints, coordinate k.
PathMoment2(cs, k) ==
  SumTo([i \in 1..(Len(cs) - 1) |->
           SegLen(cs[i], cs[i + 1]) * (cs[i][k] + cs[i + 1][k])], Len(cs) - 1)

\* Twice the signed area of a closed ring (shoelace).
RingArea2(ring) ==
  SumTo([i \in 1..(Len(ring) - 1) |->
           ring[i][1] * ring[i + 1][2] - ring[i + 1][1] * ring[i][2]],
        Len(ring) - 1)

\* Six times the first area moment of a closed ring, coordinate k.
RingMoment6(ring, k) ==
  SumTo([i \in 1..(Len(ring) - 1) |->
           (ring[i][k] + ring[i + 1][k])
           * (ring[i][1] * ring[i + 1][2] - ring[i + 1][1] * ring[i][2])],
        Len(ring) - 1)

\* geometry.centroid as <<x, y>>: the point itself, the length-weighted mean
\* of a line's segment midpoints, the area centroid of a polygon.  The sample
\* geometries are chosen so that the quotients are exact.
Centroid(g) ==
  CASE g.geom_type = "Point" -> g.coords[1]
    [] g.geom_type = "LineString" ->
         <<PathMoment2(g.coords, 1) \div (2 * PathLen(g.coords)),
           PathMoment2(g.coords, 2) \div (2 * PathLen(g.coords))>>
    [] g.geom_type = "Polygon" ->
         LET a2 == RingArea2(g.coords)
             s == IF a2 < 0 THEN -1 ELSE 1
         IN <<(s * RingMoment6(g.coords, 1)) \div (3 * s * a2),
              (s * RingMoment6(g.coords, 2)) \div (3 * s * a2)>>
    [] g.geom_type = "MultiLineString" ->
         LET n == Len(g.parts)
             len == SumTo([i \in 1..n |-> PathLen(g.parts[i])], n)
         IN <<SumTo([i \in 1..n |-> PathMoment2(g.parts[i], 1)], n) \div (2 * len),
              SumTo([i \in 1..n |-> PathMoment2(g.parts[i], 2)], n) \div (2 * len)>>

\* ----------------------------------------------------- point extractor
\* get_representative_points with the latitude and longitude exchanged.
get_representative_points_LonLat(geometry) ==
  CASE geometry.geom_type = "LineString" ->
         [i \in 1..Len(geometry.coords) |->
            <<geometry.coords[i][1], geometry.coords[i][2]>>]
    [] geometry.geom_type = "Polygon" ->
         <<<<Centroid(geometry)[1], Centroid(geometry)[2]>>>>
    [] geometry.geom_type = "Point" ->
         <<<<geometry.coords[1][1], geometry.coords[1][2]>>>>
    [] OTHER -> <<>>

\* get_representative_points with the polygon branch emitting the ring's
\* vertices instead of the centroid.
get_representative_points_Ring(geometry) ==
  CASE geometry.geom_type \in {"LineString", "Polygon"} ->
         [i \in 1..Len(geometry.coords) |->
            <<geometry.coords[i][2], geometry.coords[i][1]>>]
    [] geometry.geom_type = "Point" ->
         <<<<geometry.coords[1][2], geometry.coords[1][1]>>>>
    [] OTHER -> <<>>

\* get_representative_points with a catch-all branch that emits the centroid
\* of every geometry that is neither a line nor a point.
get_representative_points_CatchAll(geometry) ==
  CASE geometry.geom_type = "LineString" ->
         [i \in 1..Len(geometry.coords) |->
            <<geometry.coords[i][2], geometry.coords[i][1]>>]
    [] geometry.geom_type = "Point" ->
         <<<<geometry.coords[1][2], geometry.coords[1][1]>>>>
    [] OTHER -> <<<<0, 0>>>>

\* The list of (lat, lon) pairs get_representative_points returns.
get_representative_points(geometry) ==
  CASE geometry.geom_type = "LineString" ->
         [i \in 1..Len(geometry.coords) |->
            <<geometry.coords[i][2], geometry.coords[i][1]>>]
    [] geometry.geom_type = "Polygon" ->
         <<<<Centroid(geometry)[2], Centroid(geometry)[1]>>>>
    [] geometry.geom_type = "Point" ->
         <<<<geometry.coords[1][2], geometry.coords[1][1]>>>>
    [] OTHER -> <<>>

\* geometry.geom_type on None raises AttributeError.
ExtractRaises(geometry) == geometry = NoneGeom

RECURSIVE get_all_points_from_gdf(_)
\* gdf_rows: the rows of the (filtered) frame; the points of every geometry,
\* in row order.
get_all_points_from_gdf(gdf_rows) ==
  IF gdf_rows = <<>> THEN <<>>
  ELSE get_representative_points(Head(gdf_rows).geometry)
       \o get_all_points_from_gdf(Tail(gdf_rows))

\* The loop of get_all_points_from_gdf raises when a geometry is None.
AllPointsRaises(gdf_rows) ==
  \E i \in 1..Len(gdf_rows) : ExtractRaises(gdf_rows[i].geometry)

\* -------------------------------------------------------------- frames
\* gdf[gdf[col] == val]: the rows whose column equals val, in row order,
\* written with the comparison inverted.
FilterRowsNot(rows, col, val) ==
  LET Keep(r) == r[col] # val IN SelectSeq(rows, Keep)

\* gdf[gdf[col] == val]: the rows whose column equals val, in row order.
FilterRows(rows, col, val) ==
  LET Keep(r) == r[col] = val IN SelectSeq(rows, Keep)

RECURSIVE SortedSeq(_)
\* sorted(list of a set of integers)
SortedSeq(S) ==
  IF S = {} THEN <<>>
  ELSE LET lo == CHOOSE x \in S : \A y \in S : x <= y
       IN <<lo>> \o SortedSeq(S \ {lo})

\* sorted(gdf[DELIV_YEAR_COL].unique().tolist())
UniqueYears(rows) == SortedSeq({rows[i][DELIV_YEAR_COL] : i \in 1..Len(rows)})

\* Stand-in for the coordinate transformation of to_crs("EPSG:4326") from the
\* projected CRS of the model: an invertible map that is not the identity.
ToWGS84(xy) == <<xy[1] - 10, xy[2] - 20>>

\* The inverse map: how a dataset in the projected CRS stores a lon/lat vertex.
FromWGS84(xy) == <<xy[1] + 10, xy[2] + 20>>

MapCoords(g, F(_)) ==
  [g EXCEPT !.coords = [i \in 1..Len(g.coords) |-> F(g.coords[i])],
            !.parts = [p \in 1..Len(g.parts) |->
                         [i \in 1..Len(g.parts[p]) |-> F(g.parts[p][i])]]]

\* gdf.to_crs("EPSG:4326") that relabels the CRS and leaves the frame's
\* coordinates as they were.
to_crs_4326_Skip(gdf_) == gdf_

\* gdf.to_crs("EPSG:4326") on a frame that has a CRS.
to_crs_4326(gdf_) ==
  [crs |-> "EPSG:4326",
   rows |-> [i \in 1..Len(gdf_.rows) |->
               [gdf_.rows[i] EXCEPT !.geometry = MapCoords(@, ToWGS84)]]]

\* ------------------------------------------------------------ map center
Dim(g) ==
  CASE g.geom_type = "Point" -> 0
    [] g.geom_type \in {"LineString", "MultiLineString"} -> 1
    [] g.geom_type = "Polygon" -> 2

Weight(g) ==
  CASE g.geom_type = "Point" -> 1
    [] g.geom_type = "LineString" -> PathLen(g.coords)
    [] g.geom_type = "MultiLineString" ->
         SumTo([i \in 1..Len(g.parts) |-> PathLen(g.parts[i])], Len(g.parts))
    [] g.geom_type = "Polygon" -> Abs(RingArea2(g.coords))

\* gdf.unary_union.centroid as the fraction <<y, x>> / den.  The union drops
\* missing geometries and repeated ones; its centroid is that of the
\* components of highest dimension, weighted by count, length or area (the
\* sample geometries are pairwise disjoint, so the union keeps them whole).
\* The union of nothing is empty and its centroid has NaN coordinates: den = 0.
UnionCentroid(rows) ==
  LET n == Len(rows)
      Counts(i) == /\ rows[i].geometry # NoneGeom
                   /\ \A j \in 1..(i - 1) : rows[j].geometry # rows[i].geometry
      top == IF \E i \in 1..n : Counts(i)
               THEN CHOOSE d \in 0..2 :
                      /\ \E i \in 1..n : Counts(i) /\ Dim(rows[i].geometry) = d
                      /\ \A i \in 1..n : Counts(i) => Dim(rows[i].geometry) <= d
               ELSE 0
      Top(i) == Counts(i) /\ Dim(rows[i].geometry) = top
      W(i) == IF Top(i) THEN Weight(rows[i].geometry) ELSE 0
      M(i, k) == IF Top(i) THEN Weight(rows[i].geometry) * Centroid(rows[i].geometry)[k]
                 ELSE 0
  IN [src |-> "unary_union",
      lat_num |-> SumTo([i \in 1..n |-> M(i, 2)], n),
      lon_num |-> SumTo([i \in 1..n |-> M(i, 1)], n),
      den |-> SumTo([i \in 1..n |-> W(i)], n)]

FirstCentroid(rows) ==
  [src |-> "first_geometry",
   lat_num |-> Centroid(rows[1].geometry)[2],
   lon_num |-> Centroid(rows[1].geometry)[1],
   den |-> 1]

DefaultCenter == [src |-> "default", lat_num |-> 0, lon_num |-> 0, den |-> 1]

Unassigned == [src |-> "unassigned", lat_num |-> 0, lon_num |-> 0, den |-> 1]

\* The except branch of the center computation without the first-geometry
\* case: it goes straight to the default.
FallbackCenter_DefaultOnly(rows) == DefaultCenter

\* The except branch of the center computation.
FallbackCenter(rows) ==
  IF Len(rows) # 0 /\ rows[1].geometry # NoneGeom
    THEN FirstCentroid(rows)
    ELSE DefaultCenter

\* ------------------------------------------------------------ map layers
\* A folium element: kind, name, show (initially visible), data (heat points
\* or GeoJSON features), tooltip fields, children in the order added.
Element(kind, name, show, data, tooltip, children) ==
  [kind |-> kind, name |-> name, show |-> show, data |-> data,
   tooltip |-> tooltip, children |-> children]

\* folium.Map(..., tiles="CartoDB positron") holds its tile layer.
TileLayer == Element("TileLayer", <<"cartodbpositron">>, TRUE, <<>>, <<>>, <<>>)

HeatMap(heat_data, cat_val) ==
  Element("HeatMap", <<"Heatmap - Category", cat_val>>, TRUE, heat_data, <<>>, <<>>)

YearlyGroupName == <<"Yearly Connectivity Data">>

YearlyGroup == Element("FeatureGroup", YearlyGroupName, FALSE, <<>>, <<>>, <<>>)

GeoJson(year_rows, year) ==
  Element("GeoJson", <<"Data for", year>>, TRUE, year_rows,
          <<LOCATION_COL, CATEGORY_COL, DELIV_YEAR_COL>>, <<>>)

YearGroup(year_rows, year) ==
  Element("FeatureGroup", <<"Year:", year>>, FALSE, <<>>, <<>>,
          <<GeoJson(year_rows, year)>>)

NoMap == [created |-> FALSE, location |-> Unassigned, children |-> <<>>]

\* The entries LayerControl offers: the layers that are children of the map
\* itself (what it is added to), by name; base layers and overlays alike.
ControlEntries(map) ==
  [i \in 1..Len(map.children) |-> map.children[i].name]

NoControl == [attached |-> FALSE, collapsed |-> FALSE, entries |-> <<>>]

\* --------------------------------------------------------------- inputs
Years == {2020, 2021}

Categories == {1, 2, 3}

\* The geometries of the pipeline's rows, in lon/lat: pairwise disjoint,
\* axis-parallel, with integral centroids.
RowGeometries ==
  { Point(5, 1),
    LineString(<<<<0, 0>>, <<4, 0>>, <<4, 4>>>>),
    Polygon(<<<<6, 6>>, <<8, 6>>, <<8, 8>>, <<6, 8>>, <<6, 6>>>>),
    MultiLineString(<<<<<<0, 6>>, <<2, 6>>>>, <<<<0, 8>>, <<2, 8>>>>>>),
    NoneGeom }

\* Rows of a category outside the allow-list feed no heatmap; their geometry
\* matters to the center and the overlays only, and is a point or missing.
RowValues ==
  {r \in [geometry : RowGeometries, Deliv_Year : Years, category : Categories,
          location : {"A"}] :
     r.category = 3 => r.geometry \in {Point(5, 1), NoneGeom}}

\* A frame's rows carry their index label (0, 1, ...), as read_file gives.
WithIndex(vals) ==
  [i \in 1..Len(vals) |->
     [id |-> i - 1, geometry |-> vals[i].geometry,
      Deliv_Year |-> vals[i].Deliv_Year, category |-> vals[i].category,
      location |-> vals[i].location]]

Frames == UNION {{WithIndex(v) : v \in [1..n -> RowValues]} : n \in 0..MaxRows}

CRSs == {"EPSG:4326", "EPSG:3857", "none"}

\* What the file at SHAPEFILE_PATH holds: rows whose lon/lat content is
\* `rows`, stored in the coordinates of `crs`.
Dataset(crs, rows) ==
  [crs |-> crs,
   rows |-> IF crs = "EPSG:3857"
              THEN [i \in 1..Len(rows) |->
                      [rows[i] EXCEPT !.geometry = MapCoords(@, FromWGS84)]]
              ELSE rows]

NoFrame == [crs |-> "unloaded", rows |-> <<>>]

\* The geometries handed to the point extractor on its own.
Vertices == (0..MaxCoord) \X (0..MaxCoord)

Rect(x, y, w, h) ==
  <<<<x, y>>, <<x + w, y>>, <<x + w, y + h>>, <<x, y + h>>, <<x, y>>>>

Tri(x, y, a, b) == <<<<x, y>>, <<x + 3 * a, y>>, <<x, y + 3 * b>>, <<x, y>>>>

\* A rectangle with one more vertex in the middle of its first edge.
Rect5(x, y, w, h) ==
  <<<<x, y>>, <<x + w, y>>, <<x + 2 * w, y>>, <<x + 2 * w, y + h>>,
    <<x, y + h>>, <<x, y>>>>

ExtractGeometries ==
  {LineString(<<>>)}
  \cup UNION {{LineString(cs) : cs \in [1..n -> Vertices]} : n \in 2..MaxVerts}
  \cup {Point(v[1], v[2]) : v \in Vertices}
  \cup {Polygon(Rect(v[1], v[2], 2, 4)) : v \in Vertices}
  \cup {Polygon(Tri(v[1], v[2], 2, 1)) : v \in Vertices}
  \cup {Polygon(Rect5(v[1], v[2], 1, 4)) : v \in Vertices}
  \cup {MultiLineString(<<<<v, <<v[1] + 1, v[2]>>>>, <<v, <<v[1], v[2] + 1>>>>>>) :
          v \in Vertices}
  \cup {MultiPolygon(<<Rect(v[1], v[2], 2, 4), Rect(v[1] + 5, v[2], 2, 2)>>) :
          v \in Vertices}
  \cup {NoneGeom}

\* ---------------------------------------------------------------- state
VARIABLES
  file,            \* the dataset stored at SHAPEFILE_PATH
  pc,              \* position of generate_map
  outcome,         \* "running", "returned" or "raised" (exception propagated)
  gdf,             \* the frame: [crs, rows]
  map_center,      \* the center chosen
  union_raised,    \* "not_run", or whether gdf.unary_union.centroid raised
  m,               \* the folium map: [created, location, children]
  cat_idx,         \* position of the loop over HEATMAP_CATEGORIES
  unique_years,    \* the sorted distinct delivery years
  year_idx,        \* position of the loop over unique_years
  control,         \* the layer control
  load_attempts,   \* calls of read_file
  save_attempts,   \* calls of m.save
  saved,           \* OUTPUT_HTML_PATH was written
  extract_crs,     \* the CRS the frame had at each centroid / extraction
  geometry,        \* extractor on its own: the argument
  points,          \* extractor on its own: the list returned
  epc,             \* extractor on its own: "call", "returned" or "raised"
  frame,           \* get_all_points_from_gdf on its own: the rows given
  all_points,      \* get_all_points_from_gdf on its own: the list returned
  apc              \* get_all_points_from_gdf on its own: position

pipeline_vars ==
  <<file, pc, outcome, gdf, map_center, union_raised, m, cat_idx,
    unique_years, year_idx, control, load_attempts, save_attempts, saved, extract_crs>>

extract_vars == <<geometry, points, epc, frame, all_points, apc>>

vars == <<pipeline_vars, extract_vars>>

PipelineStart ==
  /\ pc = "load"
  /\ outcome = "running"
  /\ gdf = NoFrame
  /\ map_center = Unassigned
  /\ union_raised = "not_run"
  /\ m = NoMap
  /\ cat_idx = 1
  /\ unique_years = <<>>
  /\ year_idx = 1
  /\ control = NoControl
  /\ load_attempts = 0
  /\ save_attempts = 0
  /\ saved = FALSE
  /\ extract_crs = {}

ExtractIdle ==
  /\ geometry = NoneGeom
  /\ points = <<>>
  /\ epc = "idle"
  /\ frame = <<>>
  /\ all_points = <<>>
  /\ apc = "idle"

Init ==
  /\ file \in {Dataset(c, rows) : c \in CRSs, rows \in Frames}
  /\ PipelineStart
  /\ ExtractIdle

\* ------------------------------------------------------------- pipeline
\* gpd.read_file inside try/except: a failure prints and returns.
Load ==
  /\ pc = "load"
  /\ load_attempts' = load_attempts + 1
  /\ \E ok \in BOOLEAN :
       IF ok
         THEN /\ gdf' = file
              /\ pc' = "reproject"
              /\ outcome' = outcome
         ELSE /\ gdf' = gdf
              /\ pc' = "done"
              /\ outcome' = "returned"
  /\ UNCHANGED <<file, map_center, union_raised, m, cat_idx, unique_years, year_idx, control,
                 save_attempts, saved, extract_crs, extract_vars>>

\* if gdf.crs != "EPSG:4326": gdf = gdf.to_crs("EPSG:4326").  to_crs on a
\* frame without a CRS raises, outside any try.
Reproject ==
  /\ pc = "reproject"
  /\ IF gdf.crs = "EPSG:4326"
       THEN /\ gdf' = gdf
            /\ pc' = "empty_check"
            /\ outcome' = outcome
       ELSE IF gdf.crs = "none"
         THEN /\ gdf' = gdf
              /\ pc' = "done"
              /\ outcome' = "raised"
         ELSE /\ gdf' = to_crs_4326(gdf)
              /\ pc' = "empty_check"
              /\ outcome' = outcome
  /\ UNCHANGED <<file, map_center, union_raised, m, cat_idx, unique_years, year_idx, control,
                 load_attempts, save_attempts, saved, extract_crs, extract_vars>>

\* The emptiness check without its return.
EmptyCheck_NoReturn ==
  /\ pc = "empty_check"
  /\ pc' = "center"
  /\ UNCHANGED <<file, outcome, gdf, map_center, union_raised, m, cat_idx, unique_years,
                 year_idx, control, load_attempts, save_attempts, saved,
                 extract_crs, extract_vars>>

\* if gdf.empty: print; return
EmptyCheck ==
  /\ pc = "empty_check"
  /\ IF gdf.rows = <<>>
       THEN pc' = "done" /\ outcome' = "returned"
       ELSE pc' = "center" /\ outcome' = outcome
  /\ UNCHANGED <<file, gdf, map_center, union_raised, m, cat_idx, unique_years, year_idx,
                 control, load_attempts, save_attempts, saved, extract_crs,
                 extract_vars>>

\* The map center: the centroid of the union, or when that raises (an outcome
\* of the geometry library) the except branch.
Center ==
  /\ pc = "center"
  /\ \E raises \in BOOLEAN :
       /\ union_raised' = IF raises THEN "yes" ELSE "no"
       /\ map_center' = IF raises THEN FallbackCenter(gdf.rows)
                        ELSE UnionCentroid(gdf.rows)
  /\ extract_crs' = extract_crs \cup {gdf.crs}
  /\ pc' = "create_map"
  /\ UNCHANGED <<file, outcome, gdf, m, cat_idx, unique_years, year_idx,
                 control, load_attempts, save_attempts, saved, extract_vars>>

\* folium.Map(location=map_center, ...): a NaN location is rejected with a
\* ValueError, outside any try.
CreateMap ==
  /\ pc = "create_map"
  /\ IF map_center.den = 0
       THEN /\ m' = m
            /\ pc' = "done"
            /\ outcome' = "raised"
       ELSE /\ m' = [created |-> TRUE, location |-> map_center,
                     children |-> <<TileLayer>>]
            /\ pc' = "heatmaps"
            /\ outcome' = outcome
  /\ UNCHANGED <<file, gdf, map_center, union_raised, cat_idx, unique_years, year_idx,
                 control, load_attempts, save_attempts, saved, extract_crs,
                 extract_vars>>

\* One iteration of the loop over HEATMAP_CATEGORIES.
HeatmapLayer ==
  /\ pc = "heatmaps"
  /\ LET cat_val == HEATMAP_CATEGORIES[cat_idx]
         cat_rows == FilterRows(gdf.rows, CATEGORY_COL, cat_val)
         heat_data == get_all_points_from_gdf(cat_rows)
         last == cat_idx = Len(HEATMAP_CATEGORIES)
     IN IF cat_rows # <<>> /\ AllPointsRaises(cat_rows)
          THEN /\ m' = m
               /\ cat_idx' = cat_idx
               /\ pc' = "done"
               /\ outcome' = "raised"
               /\ extract_crs' = extract_crs \cup {gdf.crs}
          ELSE /\ m' = IF cat_rows # <<>> /\ heat_data # <<>>
                         THEN [m EXCEPT !.children = Append(@, HeatMap(heat_data, cat_val))]
                         ELSE m
               /\ cat_idx' = cat_idx + 1
               /\ pc' = IF last THEN "years" ELSE "heatmaps"
               /\ outcome' = outcome
               /\ extract_crs' = IF cat_rows # <<>>
                                   THEN extract_crs \cup {gdf.crs}
                                   ELSE extract_crs
  /\ UNCHANGED <<file, gdf, map_center, union_raised, unique_years, year_idx, control,
                 load_attempts, save_attempts, saved, extract_vars>>

\* unique_years and the parent FeatureGroup, added to the map hidden.
Years_ ==
  /\ pc = "years"
  /\ unique_years' = UniqueYears(gdf.rows)
  /\ m' = [m EXCEPT !.children = Append(@, YearlyGroup)]
  /\ pc' = IF UniqueYears(gdf.rows) = <<>> THEN "control" ELSE "year_layers"
  /\ UNCHANGED <<file, outcome, gdf, map_center, union_raised, cat_idx, year_idx, control,
                 load_attempts, save_attempts, saved, extract_crs, extract_vars>>

\* The index in the map's children of yearly_data_group.
YearlyGroupAt(map) ==
  CHOOSE i \in 1..Len(map.children) : map.children[i].name = YearlyGroupName

\* year_fg.add_to(m): the year's group becomes a child of the map.
AddYearGroup_ToMap(map, year_fg) ==
  [map EXCEPT !.children = Append(@, year_fg)]

\* year_fg.add_to(yearly_data_group): the year's group becomes a child of the
\* parent group, which is the object the map holds.
AddYearGroup(map, year_fg) ==
  [map EXCEPT !.children[YearlyGroupAt(map)].children = Append(@, year_fg)]

\* One iteration of the loop over unique_years.
YearLayer ==
  /\ pc = "year_layers"
  /\ LET year == unique_years[year_idx]
         year_rows == FilterRows(gdf.rows, DELIV_YEAR_COL, year)
     IN m' = IF year_rows # <<>>
               THEN AddYearGroup(m, YearGroup(year_rows, year))
               ELSE m
  /\ year_idx' = year_idx + 1
  /\ pc' = IF year_idx = Len(unique_years) THEN "control" ELSE "year_layers"
  /\ UNCHANGED <<file, outcome, gdf, map_center, union_raised, cat_idx, unique_years, control,
                 load_attempts, save_attempts, saved, extract_crs, extract_vars>>

\* folium.LayerControl(collapsed=False).add_to(m)
LayerControl ==
  /\ pc = "control"
  /\ control' = [attached |-> TRUE, collapsed |-> FALSE,
                 entries |-> ControlEntries(m)]
  /\ pc' = "save"
  /\ UNCHANGED <<file, outcome, gdf, map_center, union_raised, m, cat_idx, unique_years,
                 year_idx, load_attempts, save_attempts, saved, extract_crs,
                 extract_vars>>

\* m.save whose failure is not caught.
Save_Propagates ==
  /\ pc = "save"
  /\ save_attempts' = save_attempts + 1
  /\ \E ok \in BOOLEAN :
       /\ saved' = ok
       /\ outcome' = IF ok THEN "returned" ELSE "raised"
  /\ pc' = "done"
  /\ UNCHANGED <<file, gdf, map_center, union_raised, m, cat_idx, unique_years, year_idx,
                 control, load_attempts, extract_crs, extract_vars>>

\* m.save(OUTPUT_HTML_PATH) inside try/except: a failure prints; the function
\* ends either way.
Save ==
  /\ pc = "save"
  /\ save_attempts' = save_attempts + 1
  /\ \E ok \in BOOLEAN : saved' = ok
  /\ outcome' = "returned"
  /\ pc' = "done"
  /\ UNCHANGED <<file, gdf, map_center, union_raised, m, cat_idx, unique_years, year_idx,
                 control, load_attempts, extract_crs, extract_vars>>

Next ==
  \/ Load
  \/ Reproject
  \/ EmptyCheck
  \/ Center
  \/ CreateMap
  \/ HeatmapLayer
  \/ Years_
  \/ YearLayer
  \/ LayerControl
  \/ Save

Spec == Init /\ [][Next]_vars

\* ------------------------------------------- the point extractor on its own
OtherRows ==
  {<<>>,
   <<[geometry |-> Point(5, 1)]>>,
   <<[geometry |-> LineString(<<<<0, 0>>, <<4, 0>>, <<4, 4>>>>)]>>}

InitExtract ==
  /\ file = Dataset("EPSG:4326", <<>>)
  /\ PipelineStart
  /\ geometry \in ExtractGeometries
  /\ points = <<>>
  /\ epc = "call"
  /\ \E before \in OtherRows, after \in OtherRows :
       frame = before \o <<[geometry |-> geometry]>> \o after
  /\ all_points = <<>>
  /\ apc = "call"

\* points = get_representative_points(geometry)
Extract ==
  /\ epc = "call"
  /\ IF ExtractRaises(geometry)
       THEN points' = points /\ epc' = "raised"
       ELSE points' = get_representative_points(geometry) /\ epc' = "returned"
  /\ UNCHANGED <<pipeline_vars, geometry, frame, all_points, apc>>

\* all_points = get_all_points_from_gdf(frame)
ExtractAll ==
  /\ apc = "call"
  /\ IF AllPointsRaises(frame)
       THEN all_points' = all_points /\ apc' = "raised"
       ELSE all_points' = get_all_points_from_gdf(frame) /\ apc' = "returned"
  /\ UNCHANGED <<pipeline_vars, geometry, points, epc, frame>>

NextExtract ==
  \/ Extract
  \/ ExtractAll

SpecExtract == InitExtract /\ [][NextExtract]_vars

\* ------------------------------------------------------------ properties
Supported == {"LineString", "Polygon", "Point"}

\* C1: for a LineString with vertices V1..Vn, get_representative_points
\* returns without raising a list of exactly n pairs, the i-th being
\* (lat of Vi, lon of Vi) = (y, x) of the i-th vertex: the vertex order is
\* kept and no vertex is dropped or merged with an equal one.
C1_LineVertices ==
  geometry.geom_type = "LineString" =>
    /\ epc # "raised"
    /\ epc = "returned" =>
         /\ Len(points) = Len(geometry.coords)
         /\ \A i \in 1..Len(geometry.coords) :
              /\ points[i][1] = geometry.coords[i][2]
              /\ points[i][2] = geometry.coords[i][1]

\* A line of at least three vertices that repeats a vertex and has a vertex
\* with lon # lat has been extracted.
C1_Witness ==
  /\ epc = "returned"
  /\ geometry.geom_type = "LineString"
  /\ Len(geometry.coords) >= 3
  /\ geometry.coords[1] = geometry.coords[3]
  /\ geometry.coords[2][1] # geometry.coords[2][2]
  /\ Len(points) = Len(geometry.coords)

\* C2: for a Polygon, get_representative_points returns without raising a
\* list of exactly one pair, (centroid y, centroid x), the centroid being the
\* area centroid of the ring (3 * 2A * C = the ring's first moment), however
\* many vertices the ring has.
C2_PolygonCentroid ==
  geometry.geom_type = "Polygon" =>
    /\ epc # "raised"
    /\ epc = "returned" =>
         /\ Len(points) = 1
         /\ 3 * RingArea2(geometry.coords) * points[1][1]
              = RingMoment6(geometry.coords, 2)
         /\ 3 * RingArea2(geometry.coords) * points[1][2]
              = RingMoment6(geometry.coords, 1)

\* A polygon of five distinct vertices whose centroid has lon # lat has been
\* extracted.
C2_Witness ==
  /\ epc = "returned"
  /\ geometry.geom_type = "Polygon"
  /\ Len(geometry.coords) = 6
  /\ Len(points) = 1
  /\ points[1][1] # points[1][2]

\* The rows of a frame whose geometry is of a supported kind.
SupportedRows(rows) ==
  LET Keep(r) == r.geometry.geom_type \in Supported IN SelectSeq(rows, Keep)

\* C3: for a geometry that is present and whose kind is none of LineString,
\* Polygon, Point, get_representative_points returns the empty list and does
\* not raise; in get_all_points_from_gdf such a row adds no point (the result
\* is that of the frame without those rows) and does not make the call raise.
C3_OtherKindsSkipped ==
  (geometry # NoneGeom /\ geometry.geom_type \notin Supported) =>
    /\ epc # "raised"
    /\ epc = "returned" => points = <<>>
    /\ apc # "raised"
    /\ apc = "returned" =>
         /\ all_points = get_all_points_from_gdf(SupportedRows(frame))
         /\ Len(all_points)
              = SumTo([i \in 1..Len(frame) |->
                         IF frame[i].geometry = geometry THEN 0
                         ELSE Len(frame[i].geometry.coords)], Len(frame))

\* A MultiPolygon has been extracted on its own and between two other rows.
C3_Witness ==
  /\ geometry.geom_type = "MultiPolygon"
  /\ epc = "returned"
  /\ apc = "returned"
  /\ Len(frame) = 3
  /\ all_points # <<>>

Loaded == gdf # NoFrame

HeatMaps(map) ==
  LET Keep(e) == e.kind = "HeatMap" IN SelectSeq(map.children, Keep)

\* The year overlays: the children of the parent group held by the map.
YearOverlays(map) ==
  IF \E i \in 1..Len(map.children) : map.children[i].name = YearlyGroupName
    THEN map.children[YearlyGroupAt(map)].children
    ELSE <<>>

\* C4 as stated: a run on an empty feature collection that ends normally has
\* produced a map centered on the default (0,0) with no heatmap layer and no
\* year overlay.
C4_Original ==
  (pc = "done" /\ outcome = "returned" /\ Loaded /\ gdf.rows = <<>>) =>
    /\ m.created
    /\ m.location = DefaultCenter
    /\ HeatMaps(m) = <<>>
    /\ YearOverlays(m) = <<>>

\* C4 as amended: when the loaded feature collection is empty, the run stops
\* at the emptiness check at the latest: no center is chosen, no map is
\* created, no layer control is attached and no save is attempted; a run
\* whose frame had a CRS ends by returning.
C4_EmptyStopsBeforeMap ==
  (Loaded /\ gdf.rows = <<>>) =>
    /\ pc \in {"reproject", "empty_check", "done"}
    /\ map_center = Unassigned
    /\ ~m.created
    /\ ~control.attached
    /\ save_attempts = 0
    /\ ~saved
    /\ (pc = "done" /\ gdf.crs # "none") => outcome = "returned"

\* An empty collection was loaded and the run returned at the emptiness check.
C4_Witness ==
  /\ Loaded
  /\ gdf.rows = <<>>
  /\ gdf.crs = "EPSG:4326"
  /\ pc = "done"
  /\ outcome = "returned"

RECURSIVE PointsOfCategory(_, _, _)
\* The points of rows i..n whose category is c, row by row.
PointsOfCategory(rows, c, i) ==
  IF i > Len(rows) THEN <<>>
  ELSE (IF rows[i].category = c
          THEN get_representative_points(rows[i].geometry)
          ELSE <<>>)
       \o PointsOfCategory(rows, c, i + 1)

HeatmapsDone == m.created /\ cat_idx > Len(HEATMAP_CATEGORIES)

\* C5: once the loop over the allow-list has run, for every category value c
\* the map holds exactly one heatmap layer for c if c is 1 or 2 and the rows
\* of category c yield at least one point, and none otherwise; the layer's
\* points are the concatenation, in row order, of the points of exactly the
\* rows of category c.
C5_HeatmapPerCategory ==
  HeatmapsDone =>
    /\ \A c \in Categories :
         LET layers == {i \in 1..Len(m.children) :
                          m.children[i].name = <<"Heatmap - Category", c>>}
             expected == PointsOfCategory(gdf.rows, c, 1)
         IN /\ Cardinality(layers)
                 = IF c \in {1, 2} /\ expected # <<>> THEN 1 ELSE 0
            /\ \A i \in layers : /\ m.children[i].kind = "HeatMap"
                                 /\ m.children[i].data = expected
    /\ \A i \in 1..Len(m.children) :
         m.children[i].kind = "HeatMap" =>
           \E c \in Categories : m.children[i].name = <<"Heatmap - Category", c>>

\* Both categories have a heatmap, one of them fed by two rows, while a row
\* of category 3 and a MultiLineString row feed none.
C5_Witness ==
  /\ HeatmapsDone
  /\ Len(HeatMaps(m)) = 2
  /\ Len(gdf.rows) >= 2
  /\ \E i \in 1..Len(HeatMaps(m)) : Len(HeatMaps(m)[i].data) >= 3

\* Only one category has a heatmap although rows of other kinds are present.
C5_WitnessSkipped ==
  /\ HeatmapsDone
  /\ Len(HeatMaps(m)) = 1
  /\ \E i \in 1..Len(gdf.rows) : gdf.rows[i].category = 3

YearsDone == m.created /\ unique_years # <<>> /\ year_idx > Len(unique_years)

\* C6: once the loop over the years has run, the map holds one parent group,
\* hidden, and under it (not under the map) exactly one overlay per distinct
\* delivery year of the rows, hidden, whose GeoJSON holds exactly the rows of
\* that year, with the tooltip fields location, category, year; every row is
\* in exactly one overlay.
C6_YearOverlays ==
  YearsDone =>
    LET overlays == YearOverlays(m)
        years == {gdf.rows[i].Deliv_Year : i \in 1..Len(gdf.rows)}
        Ids(j) == {overlays[j].children[1].data[k].id :
                     k \in 1..Len(overlays[j].children[1].data)}
    IN /\ Cardinality({i \in 1..Len(m.children) :
                         m.children[i].name = YearlyGroupName}) = 1
       /\ ~m.children[YearlyGroupAt(m)].show
       /\ Len(overlays) = Cardinality(years)
       /\ \A y \in years :
            Cardinality({j \in 1..Len(overlays) : overlays[j].name = <<"Year:", y>>}) = 1
       /\ \A j \in 1..Len(overlays) :
            /\ overlays[j].kind = "FeatureGroup"
            /\ ~overlays[j].show
            /\ Len(overlays[j].children) = 1
            /\ overlays[j].children[1].tooltip = <<"location", "category", "Deliv_Year">>
            /\ \E y \in years :
                 /\ overlays[j].name = <<"Year:", y>>
                 /\ Ids(j) = {gdf.rows[i].id :
                                i \in {k \in 1..Len(gdf.rows) : gdf.rows[k].Deliv_Year = y}}
                 /\ Len(overlays[j].children[1].data) = Cardinality(Ids(j))
                 /\ \A k \in 1..Len(overlays[j].children[1].data) :
                      overlays[j].children[1].data[k]
                        = gdf.rows[overlays[j].children[1].data[k].id + 1]
       /\ \A i \in 1..Len(gdf.rows) :
            Cardinality({j \in 1..Len(overlays) : gdf.rows[i].id \in Ids(j)}) = 1
       /\ \A i \in 1..Len(m.children) :
            \A y \in years : m.children[i].name # <<"Year:", y>>

\* Rows of two delivery years have been split into two overlays.
C6_Witness ==
  /\ YearsDone
  /\ Len(YearOverlays(m)) = 2
  /\ Len(gdf.rows) >= 2

\* C7 as stated: once the layer control is attached, it has an entry for
\* every heatmap layer and for every year overlay that was built.
C7_EveryLayerInControl ==
  control.attached =>
    LET Offered(name) == \E i \in 1..Len(control.entries) : control.entries[i] = name
    IN /\ \A i \in 1..Len(HeatMaps(m)) : Offered(HeatMaps(m)[i].name)
       /\ \A j \in 1..Len(YearOverlays(m)) : Offered(YearOverlays(m)[j].name)

LoadFailed == load_attempts > 0 /\ ~Loaded

\* C8: read_file and m.save are each called at most once; a failure of either
\* ends the run by returning, never by raising; after a load failure there is
\* no map, no save attempt and no output file; the save is attempted only
\* after both loops have finished and the layer control is attached, and the
\* file is written only by that attempt.
C8_FailuresCaught ==
  /\ load_attempts <= 1
  /\ save_attempts <= 1
  /\ LoadFailed =>
       /\ pc = "done"
       /\ outcome = "returned"
       /\ ~m.created
       /\ map_center = Unassigned
       /\ save_attempts = 0
       /\ ~saved
  /\ save_attempts = 1 =>
       /\ pc = "done"
       /\ outcome = "returned"
       /\ m.created
       /\ HeatmapsDone
       /\ YearsDone
       /\ control.attached
       /\ control.entries = ControlEntries(m)
  /\ saved => save_attempts = 1

\* A run whose save failed has ended.
C8_Witness ==
  /\ save_attempts = 1
  /\ ~saved
  /\ pc = "done"

\* A run whose load failed has ended.
C8_WitnessLoad ==
  /\ LoadFailed
  /\ pc = "done"

\* C9: a center is assigned before the map is created and the map is
\* created on it; it is the centroid of the union exactly when that
\* computation did not raise, otherwise the centroid of the first geometry
\* when there is one, and [0, 0] only when the first geometry is missing.
C9_CenterFallbackOrder ==
  /\ m.created => /\ map_center # Unassigned
                  /\ m.location = map_center
  /\ map_center # Unassigned =>
       /\ union_raised \in {"yes", "no"}
       /\ union_raised = "no" => map_center = UnionCentroid(gdf.rows)
       /\ (union_raised = "yes" /\ gdf.rows[1].geometry # NoneGeom) =>
            /\ map_center.src = "first_geometry"
            /\ map_center.den = 1
            /\ map_center.lat_num = Centroid(gdf.rows[1].geometry)[2]
            /\ map_center.lon_num = Centroid(gdf.rows[1].geometry)[1]
       /\ (union_raised = "yes" /\ gdf.rows[1].geometry = NoneGeom) =>
            /\ map_center.src = "default"
            /\ map_center.lat_num = 0
            /\ map_center.lon_num = 0
            /\ map_center.den = 1
  /\ map_center = Unassigned => union_raised = "not_run"

\* A map was created on the centroid of the first geometry, a line whose
\* centroid has lat # lon.
C9_Witness ==
  /\ m.created
  /\ m.location.src = "first_geometry"
  /\ m.location.lat_num # m.location.lon_num
  /\ Len(gdf.rows) >= 2

\* A map was created on the default center.
C9_WitnessDefault ==
  /\ m.created
  /\ m.location = DefaultCenter

\* C10: every centroid computation and every point extraction of a run finds
\* the frame in EPSG:4326, whatever CRS the dataset has; from the emptiness
\* check on, the frame holds the dataset's rows in lon/lat.
C10_ExtractionAfterReprojection ==
  /\ extract_crs \subseteq {"EPSG:4326"}
  /\ pc \in {"empty_check", "center", "create_map", "heatmaps", "years",
             "year_layers", "control", "save"} =>
       /\ gdf.crs = "EPSG:4326"
       /\ file = Dataset(file.crs, gdf.rows)
  /\ (Loaded /\ file.crs = "none") => (~m.created /\ extract_crs = {})

\* Points of a dataset stored in a projected CRS have been extracted into a
\* heatmap.
C10_Witness ==
  /\ file.crs = "EPSG:3857"
  /\ extract_crs = {"EPSG:4326"}
  /\ HeatMaps(m) # <<>>

====
